---- MODULE Spec2Model ----
(***************************************************************************)
(* Model of battlescrape.py (board rendering and snake labelling) and of   *)
(* batch_test_reader.py (one worker thread per test case, polled by main). *)
(*                                                                         *)
(* Strings are sequences of Unicode code points, so chr(i) is i, a label  *)
(* is a string of length one and "\n" is <<10>>.  Inputs are ASCII.        *)
(***************************************************************************)
EXTENDS Integers, Sequences, FiniteSets, TLC

VARIABLES
    pc,             \* position of the running program
    game,           \* Game object { ID, Width, Height }
    turn,           \* the turn argument (a string)
    format_option,  \* args.format_option
    foods,          \* frame["Food"]
    frame_snakes,   \* frame["Snakes"] as the engine returned it
    snakes,         \* the list a function works on (the live snakes)
    board_string,   \* value returned by get_board_string
    body,           \* get_body_char: body argument
    index,          \* get_body_char: index argument
    glyph,          \* get_body_char: returned string
    lines,          \* batch tool: lines of the input file not yet read
    worker,         \* batch tool: state of the current build thread
    result_buffer,  \* batch tool: result slot of the current test case
    output,         \* batch tool: accumulated test strings
    started         \* batch tool: number of workers started so far

vars == <<pc, game, turn, format_option, foods, frame_snakes, snakes, board_string,
          body, index, glyph, lines, worker, result_buffer, output, started>>

renderVars == <<game, turn, format_option, foods, frame_snakes, board_string>>
bodyVars == <<body, index, glyph>>
batchVars == <<lines, worker, result_buffer, output, started>>

----------------------------------------------------------------------------
(* Bounds                                                                  *)

MaxLabelSnakes == 4
MaxBodyCoord == 2
MaxSnakes == 2
MaxWidth == 3
MaxHeight == 4
MaxLines == 4

----------------------------------------------------------------------------
(* Strings                                                                 *)

\* str.upper() / str.lower() on one ASCII character
UpperChar(c) == IF c \in 97..122 THEN c - 32 ELSE c
LowerChar(c) == IF c \in 65..90 THEN c + 32 ELSE c

Upper(s) == [k \in 1..Len(s) |-> UpperChar(s[k])]
Lower(s) == [k \in 1..Len(s) |-> LowerChar(s[k])]

\* x in list
In(x, list) == \E k \in 1..Len(list) : list[k] = x

StrEmpty == <<>>
StrA == <<65>>                              \* "A"
StrB == <<98>>                              \* "b"
StrAb == <<97, 98>>                         \* "ab"
StrBob == <<66, 111, 98>>                   \* "Bob"
StrUnknown == <<85, 78, 75, 78, 79, 87, 78>> \* "UNKNOWN"

----------------------------------------------------------------------------
(* validate_snake_names                                                    *)

validate_snake_names(ss) ==
    [k \in 1..Len(ss) |->
        IF ss[k].Name = <<>> THEN [ss[k] EXCEPT !.Name = StrUnknown] ELSE ss[k]]

----------------------------------------------------------------------------
(* set_snake_chars                                                         *)

\* the first loop without the test on used_chars
FirstPassUnchecked(ss, k, used_chars, conflict_snakes) ==
    [snakes |-> [j \in 1..Len(ss) |->
                    [ss[j] EXCEPT !.Char = <<UpperChar(ss[j].Name[1])>>]],
     used_chars |-> [j \in 1..Len(ss) |-> UpperChar(ss[j].Name[1])],
     conflict_snakes |-> <<>>]

\* first loop: snakes whose first letter is still free take it, the others
\* are queued in conflict_snakes (as positions in the list)
RECURSIVE FirstPass(_, _, _, _)
FirstPass(ss, k, used_chars, conflict_snakes) ==
    IF k > Len(ss)
    THEN [snakes |-> ss, used_chars |-> used_chars, conflict_snakes |-> conflict_snakes]
    ELSE LET char == UpperChar(ss[k].Name[1]) IN
         IF In(char, used_chars)
         THEN FirstPass(ss, k + 1, used_chars, Append(conflict_snakes, k))
         ELSE FirstPass([ss EXCEPT ![k].Char = <<char>>], k + 1,
                        Append(used_chars, char), conflict_snakes)

\* inner while loop: walk the code points from alphabet_index
RECURSIVE AlphabetScan(_, _, _)
AlphabetScan(char, alphabet_index, used_chars) ==
    IF In(char, used_chars)
    THEN AlphabetScan(alphabet_index, alphabet_index + 1, used_chars)
    ELSE char

\* the conflict pass going to the alphabet at once
NameScanSkipName(name, char_index, char, used_chars) ==
    IF ~In(char, used_chars) THEN char ELSE AlphabetScan(char, 97, used_chars)

\* outer while loop of the conflict pass
RECURSIVE NameScan(_, _, _, _)
NameScan(name, char_index, char, used_chars) ==
    IF ~In(char, used_chars)
    THEN char
    ELSE IF char_index + 1 >= Len(name)
         THEN NameScan(name, char_index + 1, AlphabetScan(char, 97, used_chars), used_chars)
         ELSE NameScan(name, char_index + 1, UpperChar(name[char_index + 2]), used_chars)

RECURSIVE ConflictPass(_, _, _, _)
ConflictPass(ss, conflict_snakes, c, used_chars) ==
    IF c > Len(conflict_snakes)
    THEN ss
    ELSE LET k == conflict_snakes[c]
             name == ss[k].Name
             char == NameScan(name, 0, UpperChar(name[1]), used_chars)
         IN  ConflictPass([ss EXCEPT ![k].Char = <<char>>], conflict_snakes, c + 1,
                          Append(used_chars, char))

set_snake_chars(ss) ==
    LET first == FirstPass(ss, 1, <<>>, <<>>)
    IN  ConflictPass(first.snakes, first.conflict_snakes, 1, first.used_chars)

----------------------------------------------------------------------------
(* Snake records                                                           *)

\* a snake of the frame; Char is "" until set_snake_chars sets it
Snake(id, name, health, snake_body, shout, death) ==
    [ID |-> id, Name |-> name, Health |-> health, Body |-> snake_body,
     Shout |-> shout, Death |-> death, Char |-> <<>>]

NoGame == [ID |-> <<>>, Width |-> 0, Height |-> 0]

----------------------------------------------------------------------------
(* Glyphs: strings of two characters                                       *)

Pos(x, y) == [X |-> x, Y |-> y]

EmptyGlyph == <<46, 32>>          \* ". "
FoodGlyph == <<37, 32>>           \* "% "
VerticalGlyph == <<9553, 32>>     \* U+2551 and a space
HorizontalGlyph == <<9552, 9552>> \* U+2550 twice
UpRightGlyph == <<9562, 9552>>    \* U+255A U+2550
DownRightGlyph == <<9556, 9552>>  \* U+2554 U+2550
DownLeftGlyph == <<9559, 32>>     \* U+2557 and a space
UpLeftGlyph == <<9565, 32>>       \* U+255D and a space

----------------------------------------------------------------------------
(* get_body_char                                                           *)
(* i is Python's index: the target is the (i+1)-th element of the list.   *)
(* The midpoint (prev + next) / 2 is a float; it is compared through its   *)
(* double, prev + next, against twice the target, which is exact.         *)

\* the midpoint taken with integer division
get_body_char_floor(b, i) ==
    LET prev_x == b[i].X        prev_y == b[i].Y
        target_x == b[i + 1].X  target_y == b[i + 1].Y
        next_x == b[i + 2].X    next_y == b[i + 2].Y
        prev_next_x == (prev_x + next_x) \div 2
        prev_next_y == (prev_y + next_y) \div 2
    IN  IF prev_x = next_x THEN VerticalGlyph
        ELSE IF prev_y = next_y THEN HorizontalGlyph
        ELSE IF target_x < prev_next_x /\ target_y < prev_next_y THEN UpRightGlyph
        ELSE IF target_x < prev_next_x THEN DownRightGlyph
        ELSE IF target_y > prev_next_y THEN DownLeftGlyph
        ELSE UpLeftGlyph

get_body_char(b, i) ==
    LET prev_x == b[i].X        prev_y == b[i].Y
        target_x == b[i + 1].X  target_y == b[i + 1].Y
        next_x == b[i + 2].X    next_y == b[i + 2].Y
        twice_prev_next_x == prev_x + next_x
        twice_prev_next_y == prev_y + next_y
    IN  IF prev_x = next_x THEN VerticalGlyph
        ELSE IF prev_y = next_y THEN HorizontalGlyph
        ELSE IF 2 * target_x < twice_prev_next_x /\ 2 * target_y < twice_prev_next_y
             THEN UpRightGlyph
        ELSE IF 2 * target_x < twice_prev_next_x THEN DownRightGlyph
        ELSE IF 2 * target_y > twice_prev_next_y THEN DownLeftGlyph
        ELSE UpLeftGlyph

----------------------------------------------------------------------------
(* get_body_char on its own: any three cells of a small grid              *)

BodyCells == {Pos(x, y) : x \in 0..MaxBodyCoord, y \in 0..MaxBodyCoord}

BodyInit ==
    /\ pc = "body"
    /\ body \in [1..3 -> BodyCells]
    /\ index = 1
    /\ glyph = <<>>
    /\ snakes = <<>>
    /\ game = NoGame /\ turn = <<>> /\ format_option = "none" /\ foods = <<>>
    /\ frame_snakes = <<>> /\ board_string = <<>>
    /\ lines = <<>> /\ worker = "none" /\ result_buffer = <<>>
    /\ output = <<>> /\ started = 0

GetBodyChar ==
    /\ pc = "body"
    /\ glyph' = get_body_char(body, index)
    /\ pc' = "glyph"
    /\ UNCHANGED <<body, index, snakes, renderVars, batchVars>>

BodyNext == GetBodyChar

BodySpec == BodyInit /\ [][BodyNext]_vars

----------------------------------------------------------------------------
(* concat and string formatting                                            *)

Newline == <<10>>

concat_no_end(string, added_string, end) == string \o added_string

concat(string, added_string, end) == string \o added_string \o end

\* str() of a non-negative integer, as an f-string formats it
RECURSIVE Str(_)
Str(n) == IF n < 10 THEN <<48 + n>> ELSE Str(n \div 10) \o <<48 + (n % 10)>>

\* s[-6:]
LastSix(s) == IF Len(s) <= 6 THEN s ELSE SubSeq(s, Len(s) - 5, Len(s))

----------------------------------------------------------------------------
(* get_board_string: the board bucket                                      *)

\* position in a list of n elements that Python's subscript i selects,
\* counted from 1; 0 when the subscript raises IndexError
ListIndex(i, n) ==
    IF 0 <= i /\ i < n THEN i + 1
    ELSE IF i < 0 /\ -n <= i THEN n + i + 1
    ELSE 0

\* [[". "] * width for _ in range(height)]
NewBucket(width, height) ==
    [ok |-> TRUE, rows |-> [r \in 1..height |-> [c \in 1..width |-> EmptyGlyph]]]

\* board_bucket[y][x] = g; an IndexError ends the call (ok becomes FALSE)
SetCell(bucket, x, y, g) ==
    IF ~bucket.ok THEN bucket
    ELSE LET r == ListIndex(y, Len(bucket.rows)) IN
         IF r = 0 THEN [bucket EXCEPT !.ok = FALSE]
         ELSE LET c == ListIndex(x, Len(bucket.rows[r])) IN
              IF c = 0 THEN [bucket EXCEPT !.ok = FALSE]
              ELSE [bucket EXCEPT !.rows[r][c] = g]

RECURSIVE AddFood(_, _, _)
AddFood(bucket, fs, k) ==
    IF k > Len(fs) THEN bucket
    ELSE AddFood(SetCell(bucket, fs[k].X, fs[k].Y, FoodGlyph), fs, k + 1)

\* the head without its trailing character
HeadGlyphShort(char, b) == Upper(char)

\* i is Python's index into the body b, length is len(b)
HeadGlyph(char, b) ==
    IF Len(b) > 2 /\ b[2].X = b[1].X + 1
    THEN Upper(char) \o <<9552>>
    ELSE Upper(char) \o <<32>>

TailGlyph(char, b) ==
    IF Len(b) > 2 /\ b[Len(b) - 1].X = b[Len(b)].X + 1
    THEN Lower(char) \o <<9552>>
    ELSE Lower(char) \o <<32>>

SegmentGlyph(char, b, i) ==
    IF i = 0 THEN HeadGlyph(char, b)
    ELSE IF i = Len(b) - 1 THEN TailGlyph(char, b)
    ELSE get_body_char(b, i)

RECURSIVE AddBody(_, _, _, _)
AddBody(bucket, char, b, i) ==
    IF i >= Len(b) THEN bucket
    ELSE AddBody(SetCell(bucket, b[i + 1].X, b[i + 1].Y, SegmentGlyph(char, b, i)),
                 char, b, i + 1)

RECURSIVE AddSnakes(_, _, _)
AddSnakes(bucket, ss, k) ==
    IF k > Len(ss) THEN bucket
    ELSE AddSnakes(AddBody(bucket, ss[k].Char, ss[k].Body, 0), ss, k + 1)

board_bucket(width, height, fs, ss) ==
    AddSnakes(AddFood(NewBucket(width, height), fs, 1), ss, 1)

----------------------------------------------------------------------------
(* get_board_string: the text                                              *)

comment_frame_start(option) ==
    CASE option = "java" -> <<10, 47, 42, 42>>        \* newline, then /**
      [] option = "python" -> <<10, 34, 34, 34>>      \* newline, then three quotes
      [] OTHER -> <<>>

comment_frame_edge(option) ==
    CASE option = "java" -> <<32, 42, 32>>
      [] OTHER -> <<>>

comment_frame_end(option) ==
    CASE option = "java" -> <<32, 42, 47, 10>>        \* " */" and a newline
      [] option = "python" -> <<34, 34, 34, 10>>      \* three quotes and a newline
      [] OTHER -> <<>>

\* "https://board.battlesnake.com/?engine=https%3A//engine.battlesnake.com&game="
UrlHead ==
    <<104, 116, 116, 112, 115, 58, 47, 47, 98, 111, 97, 114, 100, 46, 98, 97, 116, 116, 108, 101, 115, 110, 97, 107, 101, 46, 99, 111, 109, 47, 63,
      101, 110, 103, 105, 110, 101, 61>> \o
    <<104, 116, 116, 112, 115, 37, 51, 65, 47, 47,
      101, 110, 103, 105, 110, 101, 46, 98, 97, 116, 116, 108, 101, 115, 110, 97, 107, 101, 46, 99, 111, 109, 38, 103, 97, 109, 101, 61>>

UrlTurn == <<38, 116, 117, 114, 110, 61>>     \* "&turn="

Header(option, game_id, t) ==
    comment_frame_edge(option) \o UrlHead \o game_id \o UrlTurn \o t

\* " Turn {turn}"
TurnText(t) == <<32, 84, 117, 114, 110, 32>> \o t

\* the display name without the test on the snake's own ID
DisplayNameAnyMatch(snake, ss) ==
    IF \A k \in 1..Len(ss) : ss[k].Name # snake.Name
    THEN snake.Name
    ELSE snake.Name \o <<47>> \o LastSix(snake.ID)

DisplayName(snake, ss) ==
    IF \A k \in 1..Len(ss) : ss[k].Name # snake.Name \/ ss[k].ID = snake.ID
    THEN snake.Name
    ELSE snake.Name \o <<47>> \o LastSix(snake.ID)

ShoutText(snake) ==
    IF snake.Shout # <<>> THEN <<34>> \o snake.Shout \o <<34>> ELSE <<>>

\* " {Char}: {display_name} ({Health}) <{len(Body)}> {shout}"
InfoText(snake, ss) ==
    <<32>> \o Upper(snake.Char) \o <<58, 32>> \o DisplayName(snake, ss)
        \o <<32, 40>> \o Str(snake.Health) \o <<41, 32, 60>> \o Str(Len(snake.Body))
        \o <<62, 32>> \o ShoutText(snake)

RECURSIVE RowGlyphs(_, _, _, _)
RowGlyphs(string, cells, width, col) ==
    IF col >= width THEN string
    ELSE RowGlyphs(concat(string, cells[col + 1], <<>>), cells, width, col + 1)

\* what is appended after the glyphs of a row ("" when neither branch runs)
RowNote(row, ss, t) ==
    IF row = 0 THEN TurnText(t)
    ELSE IF 2 <= row /\ row < 2 + Len(ss) THEN InfoText(ss[row - 1], ss)
    ELSE <<>>

RECURSIVE LayoutRows(_, _, _, _, _, _, _, _)
LayoutRows(string, rows, width, height, option, ss, t, row) ==
    IF row >= height THEN string
    ELSE LET edged == concat(string, comment_frame_edge(option), <<>>)
             drawn == RowGlyphs(edged, rows[height - row], width, 0)
             noted == concat(drawn, RowNote(row, ss, t), <<>>)
         IN  LayoutRows(concat(noted, <<>>, Newline), rows, width, height,
                        option, ss, t, row + 1)

FormatBoard(rows, width, height, option, game_id, t, ss) ==
    LET opened == concat(<<>>, comment_frame_start(option), Newline)
        headed == concat(opened, Header(option, game_id, t), Newline)
        laid == LayoutRows(headed, rows, width, height, option, ss, t, 0)
    IN  concat(laid, comment_frame_end(option), <<>>)

\* snakes = [snake for snake in frame["Snakes"] if snake["Death"] is None]
LiveSnakes(ss) == SelectSeq(ss, LAMBDA snake : ~snake.Death)

----------------------------------------------------------------------------
(* get_board_string as a whole                                             *)

GameId == <<103, 49>>            \* "g1"
TurnArg == <<49, 50>>            \* "12"
StrHi == <<104, 105>>            \* "hi"

\* IDs are unique in a frame: "snake-<k>", and the short "s2" for k = 2
IdOf(k) == IF k = 2 THEN <<115, 50>> ELSE <<115, 110, 97, 107, 101, 45, 48 + k>>
HealthOf(k) == IF k = 1 THEN 100 ELSE 7 * k
ShoutOf(k) == IF k % 2 = 0 THEN StrHi ELSE <<>>

RenderNames == {StrEmpty, StrA, StrUnknown}

\* a single cell; a square with head and tail joined to the right and two
\* corners; a vertical run, a corner and a horizontal run
RenderBodies ==
    { <<Pos(0, 0)>>,
      <<Pos(0, 0), Pos(1, 0), Pos(1, 1), Pos(0, 1)>>,
      <<Pos(0, 2), Pos(0, 1), Pos(0, 0), Pos(1, 0), Pos(2, 0)>> }

\* a dead snake is kept in the frame with the body it died with
DeadSnake(k) == Snake(IdOf(k), StrA, 0, <<Pos(-1, 0), Pos(0, 0)>>, <<>>, TRUE)

SnakeChoices(k) ==
    {Snake(IdOf(k), name, HealthOf(k), b, ShoutOf(k), FALSE) :
        name \in RenderNames, b \in RenderBodies} \cup {DeadSnake(k)}

RECURSIVE FrameSnakes(_)
FrameSnakes(n) ==
    IF n = 0 THEN {<<>>}
    ELSE {Append(ss, snake) : ss \in FrameSnakes(n - 1), snake \in SnakeChoices(n)}

FoodChoices == { <<Pos(1, 1)>>, <<Pos(0, 0), Pos(0, -2)>> }

Init ==
    /\ pc = "start"
    /\ game \in {[ID |-> GameId, Width |-> w, Height |-> h] :
                    w \in {MaxWidth - 1, MaxWidth}, h \in 1..MaxHeight}
    /\ turn = TurnArg
    /\ format_option \in {"none", "java", "python"}
    /\ foods \in FoodChoices
    /\ frame_snakes \in UNION {FrameSnakes(n) : n \in 0..MaxSnakes}
    /\ snakes = <<>>
    /\ board_string = <<>>
    /\ body = <<>> /\ index = 0 /\ glyph = <<>>
    /\ lines = <<>> /\ worker = "none" /\ result_buffer = <<>>
    /\ output = <<>> /\ started = 0

\* one call of get_board_string; an IndexError leaves it without a result
GetBoardString ==
    /\ pc = "start"
    /\ LET live == set_snake_chars(validate_snake_names(LiveSnakes(frame_snakes)))
           bucket == board_bucket(game.Width, game.Height, foods, live)
       IN  /\ snakes' = live
           /\ IF bucket.ok
              THEN /\ board_string' = FormatBoard(bucket.rows, game.Width, game.Height,
                                                  format_option, game.ID, turn, live)
                   /\ pc' = "done"
              ELSE /\ board_string' = board_string
                   /\ pc' = "error"
    /\ UNCHANGED <<game, turn, format_option, foods, frame_snakes, bodyVars, batchVars>>

Next == GetBoardString

Spec == Init /\ [][Next]_vars

----------------------------------------------------------------------------
(* Labelling on its own: validate_snake_names, then set_snake_chars       *)

LabelNames == {StrEmpty, StrA, StrB, StrAb, StrBob}

LabelSnakes(n) ==
    {[k \in 1..n |-> Snake(<<48 + k>>, names[k], 100, <<>>, <<>>, FALSE)] :
        names \in [1..n -> LabelNames]}

LabelInit ==
    /\ pc = "names"
    /\ snakes \in UNION {LabelSnakes(n) : n \in 0..MaxLabelSnakes}
    /\ game = NoGame /\ turn = <<>> /\ format_option = "none" /\ foods = <<>>
    /\ frame_snakes = <<>> /\ board_string = <<>>
    /\ body = <<>> /\ index = 0 /\ glyph = <<>>
    /\ lines = <<>> /\ worker = "none" /\ result_buffer = <<>>
    /\ output = <<>> /\ started = 0

ValidateSnakeNames ==
    /\ pc = "names"
    /\ snakes' = validate_snake_names(snakes)
    /\ pc' = "validated"
    /\ UNCHANGED <<renderVars, bodyVars, batchVars>>

SetSnakeChars ==
    /\ pc = "validated"
    /\ snakes' = set_snake_chars(snakes)
    /\ pc' = "labelled"
    /\ UNCHANGED <<renderVars, bodyVars, batchVars>>

LabelNext == ValidateSnakeNames \/ SetSnakeChars

LabelSpec == LabelInit /\ [][LabelNext]_vars

----------------------------------------------------------------------------
(* batch_test_reader.py: main and its build threads                        *)
(* pc is main's position, worker the position of the build thread of the  *)
(* current test case ("none" before the first one starts).                 *)

\* parameters of the functions build_test calls, and how it calls them
GetBoardStringParams == <<"game_id", "turn">>
GetFrameStringParams == <<"frame_json">>

\* a call with n positional arguments and the keyword arguments kw is bound
\* without TypeError
CallBinds(params, n, kw) ==
    /\ n + Cardinality(kw) = Len(params)
    /\ \A name \in kw : \E k \in (n + 1)..Len(params) : params[k] = name

Alive(w) == w \in {"scrape_game", "get_board_string", "get_frame_string", "store"}

\* the next position of build_test; `answered` tells whether the engine
\* answered the request of scrape_game
BuildTestNext(w, answered) ==
    CASE w = "scrape_game" ->
            IF answered THEN "get_board_string" ELSE "raised"
      [] w = "get_board_string" ->
            IF CallBinds(GetBoardStringParams, 2, {"format_option"})
            THEN "get_frame_string" ELSE "raised"
      [] w = "get_frame_string" ->
            IF CallBinds(GetFrameStringParams, 2, {})
            THEN "store" ELSE "raised"
      [] OTHER -> "returned"

LineKinds == {"comment", "case", "blank"}

BatchInit ==
    /\ pc = "next_line"
    /\ lines \in UNION {[1..n -> LineKinds] : n \in 0..MaxLines}
    /\ worker = "none"
    /\ result_buffer = <<>>
    /\ output = <<>>
    /\ started = 0
    /\ snakes = <<>>
    /\ game = NoGame /\ turn = <<>> /\ format_option = "none" /\ foods = <<>>
    /\ frame_snakes = <<>> /\ board_string = <<>>
    /\ body = <<>> /\ index = 0 /\ glyph = <<>>

\* the for loop takes the next line: a comment is skipped, a line that does
\* not split into five fields raises ValueError, a test case gets a fresh
\* result_buffer and a started thread
ReadLine ==
    /\ pc = "next_line"
    /\ lines # <<>>
    /\ lines' = Tail(lines)
    /\ IF Head(lines) = "comment"
       THEN UNCHANGED <<pc, worker, result_buffer, started>>
       ELSE IF Head(lines) = "blank"
       THEN pc' = "crashed" /\ UNCHANGED <<worker, result_buffer, started>>
       ELSE /\ result_buffer' = <<"None">>
            /\ worker' = "scrape_game"
            /\ started' = started + 1
            /\ pc' = "polling"
    /\ UNCHANGED <<output, snakes, renderVars, bodyVars>>

\* one step of the build thread
BuildTest ==
    /\ Alive(worker)
    /\ \E answered \in BOOLEAN : worker' = BuildTestNext(worker, answered)
    /\ result_buffer' = IF worker = "store" THEN <<"test">> ELSE result_buffer
    /\ UNCHANGED <<pc, lines, output, started, snakes, renderVars, bodyVars>>

\* while build_thread.is_alive() ends
PollEnds ==
    /\ pc = "polling"
    /\ ~Alive(worker)
    /\ pc' = "read"
    /\ UNCHANGED <<batchVars, snakes, renderVars, bodyVars>>

\* output = output + result_buffer[0]; None cannot be added to a string
ReadResult ==
    /\ pc = "read"
    /\ IF result_buffer[1] = "None"
       THEN pc' = "crashed" /\ output' = output
       ELSE pc' = "next_line" /\ output' = Append(output, result_buffer[1])
    /\ UNCHANGED <<lines, worker, result_buffer, started, snakes, renderVars, bodyVars>>

\* the file is read to its end; the output is printed and copied
Finish ==
    /\ pc = "next_line"
    /\ lines = <<>>
    /\ pc' = "finished"
    /\ UNCHANGED <<batchVars, snakes, renderVars, bodyVars>>

BatchNext == ReadLine \/ BuildTest \/ PollEnds \/ ReadResult \/ Finish

BatchSpec == BatchInit /\ [][BatchNext]_vars

(***************************************************************************)
(* Properties                                                              *)
(***************************************************************************)

Labels == [k \in 1..Len(snakes) |-> snakes[k].Char]

\* C1: after validate_snake_names and set_snake_chars every snake has a
\* label of one character and the labels of the list are pairwise distinct.
C1_LabelsDistinct ==
    pc = "labelled" =>
        /\ \A k \in 1..Len(snakes) : Len(snakes[k].Char) = 1
        /\ \A j, k \in 1..Len(snakes) : j # k => snakes[j].Char # snakes[k].Char

\* a list where the conflict pass ran out of name and took letters from the
\* alphabet: three snakes named "A"
C1_Witness ==
    /\ pc = "labelled"
    /\ Len(snakes) = 3
    /\ \A k \in 1..3 : snakes[k].Name = StrA
    /\ Labels = <<StrA, <<97>>, <<98>>>>

\* C2: no two snakes of the list get labels that differ only in case, so
\* no two head glyphs (the upper-cased label) are equal.
C2_NoCaseCollision ==
    pc = "labelled" =>
        \A j, k \in 1..Len(snakes) :
            j # k => Upper(snakes[j].Char) # Upper(snakes[k].Char)

BoxSides(c) ==
    CASE c = 9553 -> {"up", "down"}
      [] c = 9552 -> {"left", "right"}
      [] c = 9562 -> {"up", "right"}
      [] c = 9556 -> {"down", "right"}
      [] c = 9559 -> {"down", "left"}
      [] c = 9565 -> {"up", "left"}
      [] OTHER -> {}

\* where cell q lies seen from cell p, with y growing upwards
Side(p, q) ==
    CASE q.X = p.X /\ q.Y = p.Y + 1 -> "up"
      [] q.X = p.X /\ q.Y = p.Y - 1 -> "down"
      [] q.Y = p.Y /\ q.X = p.X + 1 -> "right"
      [] q.Y = p.Y /\ q.X = p.X - 1 -> "left"
      [] OTHER -> "none"

Turning ==
    /\ Len(body) = 3
    /\ body[1] # body[3]
    /\ Side(body[2], body[1]) # "none"
    /\ Side(body[2], body[3]) # "none"

\* C9: for an interior segment between two distinct orthogonal neighbours
\* the glyph joins exactly the sides of the two neighbours, and its second
\* character is the horizontal connector exactly when one of them is the
\* cell to the right (a space otherwise).
C9_GlyphJoinsNeighbours ==
    (pc = "glyph" /\ Turning) =>
        LET sides == {Side(body[2], body[1]), Side(body[2], body[3])} IN
        /\ Len(glyph) = 2
        /\ BoxSides(glyph[1]) = sides
        /\ glyph[2] = (IF "right" \in sides THEN 9552 ELSE 32)

\* a turn from above to the right
C9_Witness ==
    /\ pc = "glyph" /\ Turning
    /\ Side(body[2], body[1]) = "up" /\ Side(body[2], body[3]) = "right"
    /\ glyph = UpRightGlyph

----------------------------------------------------------------------------
(* Reading the returned string back                                        *)

\* positions of the newlines of the returned string, in increasing order
LineEnds ==
    LET ends == {k \in 1..Len(board_string) : board_string[k] = 10}
    IN  [n \in 1..Cardinality(ends) |->
            CHOOSE k \in ends : Cardinality({j \in ends : j < k}) = n - 1]

\* the n-th newline-terminated line, without its newline
OutLine(ends, n) ==
    SubSeq(board_string, (IF n = 1 THEN 0 ELSE ends[n - 1]) + 1, ends[n] - 1)

HasPrefix(s, p) == Len(s) >= Len(p) /\ SubSeq(s, 1, Len(p)) = p

Commented == format_option \in {"java", "python"}

\* lines before the first board row: an empty line, the comment opener if
\* there is one, and the URL
LinesBefore == IF Commented THEN 3 ELSE 2

Edge == IF format_option = "java" THEN <<32, 42, 32>> ELSE <<>>

\* the output line of board row `row`, counted from the top
RowLine(ends, row) == OutLine(ends, LinesBefore + row + 1)

\* the glyph part of a row's line and what follows it
CellsOf(line) == SubSeq(line, Len(Edge) + 1, Len(Edge) + 2 * game.Width)
RestOf(line) == SubSeq(line, Len(Edge) + 2 * game.Width + 1, Len(line))

\* the c-th two-character cell of a glyph part
CellAt(cells, c) == SubSeq(cells, 2 * c - 1, 2 * c)

InBoard(p) == p.X \in 0..(game.Width - 1) /\ p.Y \in 0..(game.Height - 1)

Live == LiveSnakes(frame_snakes)

AllInBoard ==
    /\ \A k \in 1..Len(foods) : InBoard(foods[k])
    /\ \A k \in 1..Len(Live) : \A i \in 1..Len(Live[k].Body) : InBoard(Live[k].Body[i])

\* the cells as get_board_string fills them
Cells == board_bucket(game.Width, game.Height, foods, snakes).rows

\* C4: the output holds one line per board row, the top one for y =
\* height - 1; each starts with the comment edge, then the two-character
\* glyphs of the row's width cells (2 * width characters), then the row's
\* annotation and nothing else.
C4_RowsAreTwiceWidth ==
    pc = "done" =>
        LET ends == LineEnds
            cells == Cells
        IN  /\ Len(ends) >= LinesBefore + game.Height
            /\ \A row \in 0..(game.Height - 1) :
                LET line == RowLine(ends, row)
                    drawn == CellsOf(line)
                IN  /\ HasPrefix(line, Edge)
                    /\ Len(line) >= Len(Edge) + 2 * game.Width
                    /\ Len(drawn) = 2 * game.Width
                    /\ \A col \in 1..game.Width :
                        CellAt(drawn, col) = cells[game.Height - row][col]
                    /\ RestOf(line) = RowNote(row, snakes, turn)

\* an in-board frame with a row of a vertical segment, food and an empty
\* cell above a row of a corner, a horizontal segment and a tail
C4_Witness ==
    /\ pc = "done" /\ AllInBoard /\ game.Width = 3 /\ game.Height >= 3
    /\ LET ends == LineEnds
           upper == CellsOf(RowLine(ends, game.Height - 2))
           lower == CellsOf(RowLine(ends, game.Height - 1))
       IN  /\ upper = VerticalGlyph \o FoodGlyph \o EmptyGlyph
           /\ lower = UpRightGlyph \o HorizontalGlyph \o <<97, 32>>

\* C5 as stated: height lines without a comment style, height + 1 with one.
C5_HeightLines ==
    pc = "done" =>
        /\ board_string[Len(board_string)] = 10
        /\ Len(LineEnds) = game.Height + (IF Commented THEN 1 ELSE 0)

\* C5 amended: the string is made of newline-terminated lines: an empty
\* line, the URL line and the height board rows (height + 2), and with a
\* comment style also the opening and the closing line (height + 4).
C5_HeightPlusHeaderLines ==
    pc = "done" =>
        LET ends == LineEnds IN
        /\ board_string[Len(board_string)] = 10
        /\ Len(ends) = game.Height + (IF Commented THEN 4 ELSE 2)
        /\ OutLine(ends, 1) = <<>>
        /\ OutLine(ends, LinesBefore) = Edge \o UrlHead \o game.ID \o UrlTurn \o turn

C5_Witness ==
    /\ pc = "done" /\ format_option = "java" /\ game.Height = 3
    /\ Len(LineEnds) = 7

NormalName(name) == IF name = <<>> THEN StrUnknown ELSE name

\* another live snake of the frame bears the same display name
NameShared(k) ==
    \E j \in 1..Len(Live) :
        /\ j # k
        /\ Live[j].ID # Live[k].ID
        /\ NormalName(Live[j].Name) = NormalName(Live[k].Name)

\* " {LABEL}: {name}" followed by `tail`
InfoStart(k, tail) ==
    <<32>> \o Upper(snakes[k].Char) \o <<58, 32>> \o NormalName(Live[k].Name) \o tail

\* C6: in the info line of the k-th live snake (board row k + 1 from the
\* top, when the board has that row) the name is followed by "/" and the
\* last six characters of the ID (all of a shorter ID) exactly when
\* another live snake has the
\* same name after blank names became "UNKNOWN"; otherwise the bare name
\* is followed by " (".
C6_SuffixIffShared ==
    pc = "done" =>
        LET ends == LineEnds IN
        \A k \in 1..Len(Live) :
            k + 1 < game.Height =>
                LET id == Live[k].ID
                    six == SubSeq(id, IF Len(id) > 6 THEN Len(id) - 5 ELSE 1, Len(id))
                    rest == RestOf(RowLine(ends, k + 1))
                IN  IF NameShared(k)
                    THEN HasPrefix(rest, InfoStart(k, <<47>> \o six \o <<32, 40>>))
                    ELSE HasPrefix(rest, InfoStart(k, <<32, 40>>))

\* a blank name and an "UNKNOWN" in one frame, both with their info lines
C6_Witness ==
    /\ pc = "done" /\ game.Height >= 4 /\ Len(Live) = 2
    /\ Live[1].Name = <<>> /\ Live[2].Name = StrUnknown
    /\ NameShared(1) /\ NameShared(2)
    /\ HasPrefix(RestOf(RowLine(LineEnds, 3)), InfoStart(2, <<47>>))

\* C7: a frame with a food or live body position outside the board yields
\* no board string.
C7_OutsideFails ==
    pc = "done" => AllInBoard

\* C8: row 0 carries " Turn {turn}", row 2 + i the info line of the i-th
\* live snake for every live snake, and the other rows carry nothing.
C8_EverySnakeHasItsRow ==
    pc = "done" =>
        LET ends == LineEnds IN
        /\ RestOf(RowLine(ends, 0)) = TurnText(turn)
        /\ \A k \in 1..Len(snakes) :
            /\ k + 1 < game.Height
            /\ RestOf(RowLine(ends, k + 1)) = InfoText(snakes[k], snakes)
        /\ \A row \in 1..(game.Height - 1) :
            (row < 2 \/ row >= 2 + Len(snakes)) => RestOf(RowLine(ends, row)) = <<>>

\* C10: whenever main reads the result slot of a test case, the build
\* thread of that case is no longer alive and the slot holds its result.
C10_ReadsWorkersResult ==
    pc = "read" => (~Alive(worker) /\ result_buffer[1] # "None")

====
